---- MODULE Spec2Model ----
(***************************************************************************)
(* Model of the task execution framework (task/base.py, class Task) and of *)
(* the conformer embedders (embedders.py, class ConfGenEmbedder and its    *)
(* subclasses).                                                            *)
(*                                                                         *)
(* Spec     : one Task instance, its constructor and its __call__, over a  *)
(*            small filesystem.                                            *)
(* EmbSpec  : one embedder instance, its constructor and its __call__.     *)
(* VerSpec  : analyze_subtask_result of the Gaussian frequency verifier    *)
(*            (verifier/gaussian.py) on the annotations of one molecule.   *)
(* OptSpec  : task_prep and run of the MMFF optimizer                      *)
(*            (optimizer/forcefield.py).                                   *)
(*                                                                         *)
(* Python's None / "attribute never assigned" is the empty sequence, a     *)
(* present value v is <<v>>.  Directory arguments are absolute locations.  *)
(***************************************************************************)
EXTENDS Integers, Sequences, FiniteSets, TLC

\* ---------------------------------------------------------------- bounds
MaxCalls == 3
MaxConf == 2
\* invokes of an embedder that keeps no statistics, and of one that does
MaxInvokes == 10
MaxRecords == 3
\* analyses of one molecule by the frequency verifier
MaxAnalyses == 2
\* runs of one force-field optimizer
MaxRuns == 2

\* ------------------------------------------------------- value universes
None == <<>>
Some(v) == <<v>>

NoDir == "None"
Dirs == {"w", "s", "tmp"}
UserDirs == {"w", "s"}
SubDirs == {"subtask0"}
SubtaskSets == {{}, {"subtask0"}}
RelPaths == {<<".", "b.chk">>, <<"subtask0", "a.log">>,
             <<"subtask0", "b.chk">>}
\* <<save_dir, work_dir>> constructor arguments
DirArgs == {<<NoDir, NoDir>>, <<NoDir, "w">>, <<"s", NoDir>>, <<"s", "w">>,
            <<"s", "s">>}
\* <<kind, keep_files>>: the base class keeps everything, a subclass may
\* declare a keep-list
Classes == {<<"base", {"*"}>>, <<"subclass", {"*"}>>,
            <<"subclass", {"a.log"}>>}
Software == {"gaussian", "xtb"}
Keys == {"test"}
ArgVals == {0, 1}
Dicts == UNION {[D -> ArgVals] : D \in SUBSET Keys}
EmptyDict == [k \in {} |-> 0]
Durations == {1, 2}
IterVals == {1}
Results == {"mol"}
StoredArgs == {EmptyDict, [k \in {"test"} |-> 1]}

VARIABLES
  \* ---- Task instance
  pc, track_stats, save_dir, work_dir, iter, keep_files, kind,
  extra_args, paths, last_run_time, n_subtasks, n_success, stats,
  last_result,
  \* ---- filesystem
  exists, files,
  \* ---- the call in progress / the last call (locals and history)
  kwargs, steps, time_samples, run_value, returned, outcome, raised_in,
  error, pre, n_calls, n_returned,
  \* ---- what the constructor was given, what the call in progress was
  \* given and started from, the last update_work_dir (history)
  missing_sw, ctor_in, call_overrides, at_call, last_duration, uwd,
  \* ---- embedder instance
  emb_pc, emb_kind, emb_iter, emb_track_stats, emb_n_success,
  emb_percent_success, emb_stats, smiles, mol, tg_data, std,
  temp_schedule, random_vec_std,
  \* ---- the last invoke (history)
  mol_data, emb_outcome, emb_error, rebuilt, fed, call_id, call_n,
  prev_id, n_invokes, n_completed, n_failed,
  \* ---- frequency verifier: the annotations of the molecule it is handed,
  \* and its last analyze_subtask_result (history)
  ver_pc, frequencies, keep_ids, ver_error, ver_last, n_analyses,
  \* ---- force-field optimizer: its force field, and the molecule its last
  \* run was handed, the results and the molecule returned (history)
  opt_pc, ff, opt_in, opt_given, opt_results, opt_out, opt_error, n_runs

cfgVars == <<track_stats, save_dir, iter, keep_files, kind, extra_args>>
runVars == <<last_run_time, n_subtasks, n_success, last_result>>
taskVars == <<pc, cfgVars, work_dir, paths, runVars, stats>>
fsVars == <<exists, files>>
callVars == <<kwargs, steps, time_samples, run_value, returned, outcome,
              raised_in, error, pre, n_calls, n_returned>>
histVars == <<missing_sw, ctor_in, call_overrides, at_call, last_duration,
              uwd>>
embVars == <<emb_pc, emb_kind, emb_iter, emb_track_stats, emb_n_success,
             emb_percent_success, emb_stats, smiles, mol, tg_data, std,
             temp_schedule, random_vec_std>>
invVars == <<mol_data, emb_outcome, emb_error, rebuilt, fed, call_id,
             call_n, prev_id, n_invokes, n_completed, n_failed>>
verVars == <<ver_pc, frequencies, keep_ids, ver_error, ver_last, n_analyses>>
optVars == <<opt_pc, ff, opt_in, opt_given, opt_results, opt_out, opt_error,
             n_runs>>
vars == <<taskVars, fsVars, callVars, histVars, embVars, invVars, verVars,
          optVars>>

\* ================================================================ Task

\* a merge in which the stored keys win
MergeArgs_StoredWins(stored, overrides) ==
  [k \in (DOMAIN stored) \cup (DOMAIN overrides) |->
     IF k \in DOMAIN stored THEN stored[k] ELSE overrides[k]]

\* {**self.extra_args, **kwargs}: per-call keys win
MergeArgs(stored, overrides) ==
  [k \in (DOMAIN stored) \cup (DOMAIN overrides) |->
     IF k \in DOMAIN overrides THEN overrides[k] ELSE stored[k]]

\* kwargs.get(k) or False
Truthy(d, k) == k \in DOMAIN d /\ d[k] # 0

\* a gate that is satisfied by any one available program
SoftwareMet_Any(req, avail) == \E s \in req : avail[s]

\* all(_software_available[s] for s in self.request_external_software)
SoftwareMet(req, avail) == \A s \in req : avail[s]

\* the n_subtasks / n_success properties and their defaults
NSubtasks == IF n_subtasks = None THEN 1 ELSE n_subtasks[1]
NSuccess == IF n_success = None THEN 0 ELSE n_success[1]

\* n_success / n_subtasks * 100, kept exact as <<numerator, denominator>>
Percent(ns, n) == <<ns * 100, n>>

\* a wrapper that records the duration in a finally clause
timer_Finally(prev, d, raised) == Some(d)

\* Task.timer.wrapper: the _last_run_time after func returned or raised
timer(prev, d, raised) == IF raised THEN prev ELSE Some(d)

\* a getter that falls back to zero
last_run_time_get_Default ==
  IF last_run_time = None
    THEN [error |-> "none", value |-> Some(0)]
    ELSE [error |-> "none", value |-> last_run_time]

\* the last_run_time property: RuntimeError until run has completed once
last_run_time_get ==
  IF last_run_time = None
    THEN [error |-> "RuntimeError", value |-> None]
    ELSE [error |-> "none", value |-> last_run_time]

\* the paths property: {} until a subclass assigns it
EmptyPaths == [registered |-> FALSE, subtask_dir |-> {}]

\* ------------------------------------------------ filesystem primitives
NoSnapshot == [exists |-> {}, files |-> [d \in Dirs |-> {}]]

\* shutil.rmtree(d)
rmtree(fs, d) ==
  [exists |-> fs.exists \ {d}, files |-> [fs.files EXCEPT ![d] = {}]]

\* shutil.copytree(src, dst, dirs_exist_ok=True)
copytree(fs, src, dst) ==
  [exists |-> fs.exists \cup {dst},
   files |-> [fs.files EXCEPT ![dst] = @ \cup fs.files[src]]]

\* os.makedirs(d, exist_ok=True)
makedirs(fs, d) == [fs EXCEPT !.exists = @ \cup {d}]

\* osp.samefile(a, b) for two existing locations
samefile(a, b) == a = b

\* a filter that deletes the kept names instead of the others
RemoveUnkept_Inverted(fs, wd, subs, keep) ==
  IF wd \in fs.exists
    THEN [fs EXCEPT !.files[wd] =
            {f \in @ : ~(f[1] \in subs /\ f[2] \in keep)}]
    ELSE fs

\* the os.walk / os.remove loop over the registered subtask directories:
\* inside them, every file whose name is not in keep_files is deleted
RemoveUnkept(fs, wd, subs, keep) ==
  IF wd \in fs.exists
    THEN [fs EXCEPT !.files[wd] =
            {f \in @ : ~(f[1] \in subs /\ f[2] \notin keep)}]
    ELSE fs

\* an ephemeral cleanup that returns without deleting
CleanEphemeral_NoDelete(fs, wd) ==
  IF wd \in fs.exists
    THEN [fs |-> fs, error |-> "none"]
    ELSE [fs |-> fs, error |-> "FileNotFoundError"]

\* clean_work_dir without save_dir: shutil.rmtree(self.work_dir)
CleanEphemeral(fs, wd) ==
  IF wd \in fs.exists
    THEN [fs |-> rmtree(fs, wd), error |-> "none"]
    ELSE [fs |-> fs, error |-> "FileNotFoundError"]

\* a move that deletes work_dir without copying it first
MoveToSaveDir_NoCopy(fs, sd, wd) ==
  IF sd \notin fs.exists \/ wd \notin fs.exists
    THEN [fs |-> fs, error |-> "FileNotFoundError"]
  ELSE IF ~samefile(sd, wd)
    THEN [fs |-> rmtree(fs, wd), error |-> "none"]
  ELSE [fs |-> fs, error |-> "none"]

\* clean_work_dir, last statement: unless save_dir and work_dir are the
\* same location, copy work_dir into save_dir and delete work_dir;
\* samefile raises when either location is missing
MoveToSaveDir(fs, sd, wd) ==
  IF sd \notin fs.exists \/ wd \notin fs.exists
    THEN [fs |-> fs, error |-> "FileNotFoundError"]
  ELSE IF ~samefile(sd, wd)
    THEN [fs |-> rmtree(copytree(fs, wd, sd), wd), error |-> "none"]
  ELSE [fs |-> fs, error |-> "none"]

\* Task.clean_work_dir: the filesystem afterwards and the exception raised
clean_work_dir(fs, sd, wd, pths, keep) ==
  IF sd = NoDir
    THEN CleanEphemeral(fs, wd)
  ELSE IF ~pths.registered
    THEN [fs |-> fs, error |-> "none"]
  ELSE IF "*" \notin keep
    THEN MoveToSaveDir(RemoveUnkept(fs, wd, pths.subtask_dir, keep), sd, wd)
  ELSE MoveToSaveDir(fs, sd, wd)

\* an update that prefers save_dir over a work_dir already set
update_work_dir_PreferSave(wd, sd) ==
  IF sd # NoDir THEN sd
  ELSE IF wd = NoDir THEN "tmp" ELSE wd

\* Task.update_work_dir: the new work_dir
update_work_dir(wd, sd) ==
  IF wd = NoDir
    THEN IF sd = NoDir THEN "tmp" ELSE sd
    ELSE wd

\* Task.update_work_dir, line 88: the directories tempfile.mkdtemp creates
update_work_dir_mkdtemp(wd, sd) ==
  IF wd = NoDir /\ sd = NoDir THEN {"tmp"} ELSE {}

\* a constructor that creates the working directory it is given
init_mkdtemp_Eager(sd, wd) ==
  IF sd = NoDir /\ wd = NoDir THEN {"tmp"} ELSE {wd} \ {NoDir}

\* Task.__init__, lines 49-50: the directories tempfile.mkdtemp creates
init_mkdtemp(sd, wd) ==
  IF sd = NoDir /\ wd = NoDir THEN {"tmp"} ELSE {}

\* a call that forgets to persist: post_run goes straight to the statistics
StepAfter_SkipSave(step, sd, ts) ==
  CASE step = "merge" -> "pre_run"
    [] step = "pre_run" -> "run"
    [] step = "run" -> "post_run"
    [] step = "post_run" -> IF ts THEN "update_stats" ELSE "return"
    [] step = "save_data" -> IF ts THEN "update_stats" ELSE "return"
    [] step = "update_stats" -> "return"

\* the statement that follows each step of Task.__call__
StepAfter(step, sd, ts) ==
  CASE step = "merge" -> "pre_run"
    [] step = "pre_run" -> "run"
    [] step = "run" -> "post_run"
    [] step = "post_run" ->
         IF sd # NoDir THEN "save_data"
         ELSE IF ts THEN "update_stats" ELSE "return"
    [] step = "save_data" -> IF ts THEN "update_stats" ELSE "return"
    [] step = "update_stats" -> "return"

\* an exception leaves Task.__call__ at the given step
Raise(step, exc) ==
  /\ pc' = "idle"
  /\ outcome' = "raised"
  /\ raised_in' = step
  /\ error' = exc
  /\ kwargs' = EmptyDict
  /\ call_overrides' = EmptyDict

\* ---------------------------------------------------------- Task actions
TaskInit ==
  /\ pc = "new"
  /\ track_stats = FALSE /\ save_dir = NoDir /\ work_dir = NoDir
  /\ iter = 0 /\ keep_files = {"*"} /\ kind = "base"
  /\ extra_args = None /\ paths = EmptyPaths
  /\ last_run_time = None /\ n_subtasks = None /\ n_success = None
  /\ stats = None /\ last_result = None
  /\ exists = {}
  /\ files = [d \in Dirs |-> {}]
  /\ kwargs = EmptyDict /\ steps = <<>> /\ time_samples = 0
  /\ run_value = None /\ returned = None
  /\ outcome = "none" /\ raised_in = "none" /\ error = "none"
  /\ pre = NoSnapshot
  /\ n_calls = 0 /\ n_returned = 0
  /\ missing_sw = {} /\ ctor_in = None /\ call_overrides = EmptyDict
  /\ at_call = None /\ last_duration = None /\ uwd = None

\* Task.__init__; disk is the set of directories named by the arguments
\* that are on disk when the constructor runs
Construct(ts, sd, wd, it, kw, knd, keep, req, avail, disk) ==
  /\ pc = "new"
  /\ disk \subseteq {sd, wd} \cap UserDirs
  /\ track_stats' = ts
  /\ save_dir' = sd
  /\ iter' = it
  /\ kind' = knd
  /\ keep_files' = keep
  /\ work_dir' = IF sd = NoDir /\ wd = NoDir THEN "tmp" ELSE wd
  /\ exists' = disk \cup init_mkdtemp(sd, wd)
  /\ missing_sw' = {x \in req : ~avail[x]}
  /\ ctor_in' = Some([kwargs |-> kw, save_dir |-> sd, work_dir |-> wd,
                       track_stats |-> ts, iter |-> it, keep_files |-> keep,
                       created |-> exists' \ disk])
  /\ IF req # {} /\ ~SoftwareMet(req, avail)
       THEN /\ pc' = "failed"
            /\ error' = "RuntimeError"
            /\ extra_args' = extra_args
       ELSE /\ pc' = "idle"
            /\ error' = error
            /\ extra_args' = Some(kw)
  /\ UNCHANGED <<paths, last_run_time, n_subtasks, n_success, stats,
                 last_result, files, kwargs, steps, time_samples,
                 run_value, returned, outcome, raised_in, pre, n_calls,
                 n_returned, call_overrides, at_call, last_duration, uwd>>
  /\ UNCHANGED <<embVars, invVars, verVars, optVars>>

\* the extra_args property: {} when never assigned
ExtraArgs == IF extra_args = None THEN EmptyDict ELSE extra_args[1]

\* Task.__call__, line 317: a new call starts by merging the arguments
Call(overrides) ==
  /\ pc = "idle"
  /\ n_calls < MaxCalls
  /\ n_calls' = n_calls + 1
  /\ kwargs' = MergeArgs(ExtraArgs, overrides)
  /\ steps' = <<"merge">>
  /\ time_samples' = 0
  /\ run_value' = None
  /\ returned' = None
  /\ outcome' = "running"
  /\ raised_in' = "none"
  /\ error' = "none"
  /\ pc' = StepAfter("merge", save_dir, track_stats)
  /\ pre' = NoSnapshot
  /\ call_overrides' = overrides
  /\ at_call' = Some([exists |-> exists, files |-> files,
                       last_result |-> last_result,
                       last_run_time |-> last_run_time, stats |-> stats])
  /\ UNCHANGED <<cfgVars, work_dir, paths, runVars, stats, fsVars,
                 n_returned, missing_sw, ctor_in, last_duration, uwd>>
  /\ UNCHANGED <<embVars, invVars, verVars, optVars>>

\* Task.update_work_dir called between two calls of a disk-using subclass
UpdateWorkDir ==
  /\ pc = "idle"
  /\ kind = "subclass"
  /\ work_dir' = update_work_dir(work_dir, save_dir)
  /\ exists' = exists \cup update_work_dir_mkdtemp(work_dir, save_dir)
  /\ uwd' = Some([before |-> work_dir,
                   returned |-> update_work_dir(work_dir, save_dir),
                   created |-> update_work_dir_mkdtemp(work_dir, save_dir)])
  /\ UNCHANGED <<pc, cfgVars, paths, runVars, stats, files, callVars,
                 missing_sw, ctor_in, call_overrides, at_call,
                 last_duration>>
  /\ UNCHANGED <<embVars, invVars, verVars, optVars>>

\* Task.pre_run: nothing by default; the override of a subclass may raise
PreRun(fail) ==
  /\ pc = "pre_run"
  /\ fail => kind = "subclass"
  /\ steps' = Append(steps, "pre_run")
  /\ IF fail
       THEN Raise("pre_run", "RuntimeError")
       ELSE /\ pc' = StepAfter("pre_run", save_dir, track_stats)
            /\ UNCHANGED <<kwargs, outcome, raised_in, error,
                           call_overrides>>
  /\ UNCHANGED <<cfgVars, work_dir, paths, runVars, stats, fsVars,
                 time_samples, run_value, returned, pre, n_calls,
                 n_returned, missing_sw, ctor_in, at_call, last_duration,
                 uwd>>
  /\ UNCHANGED <<embVars, invVars, verVars, optVars>>

\* Task.run under the timer decorator, and line 320 storing its value:
\* run(test=True) returns True, anything else raises NotImplementedError
\* inside func, so the wrapper records no duration
Run(d) ==
  /\ pc = "run"
  /\ kind = "base"
  /\ steps' = Append(steps, "run")
  /\ last_run_time' = timer(last_run_time, d, ~Truthy(kwargs, "test"))
  /\ time_samples' = IF Truthy(kwargs, "test")
                       THEN time_samples + 1 ELSE time_samples
  /\ IF Truthy(kwargs, "test")
       THEN /\ run_value' = Some("True")
            /\ last_result' = Some("True")
            /\ last_duration' = Some(d)
            /\ at_call' = None
            /\ pc' = StepAfter("run", save_dir, track_stats)
            /\ UNCHANGED <<kwargs, outcome, raised_in, error,
                           call_overrides>>
       ELSE /\ Raise("run", "NotImplementedError")
            /\ UNCHANGED <<run_value, last_result, last_duration,
                           at_call>>
  /\ UNCHANGED <<cfgVars, work_dir, paths, n_subtasks, n_success, stats,
                 fsVars, returned, pre, n_calls, n_returned, missing_sw,
                 ctor_in, uwd>>
  /\ UNCHANGED <<embVars, invVars, verVars, optVars>>

\* run of a disk-using subclass: asks for the working directory, creates
\* it, registers its subtask directories in paths, writes files into the
\* working directory and the registered subtask directories, and counts
\* its subtasks; or raises before it has done any of this
SubclassRun(d, subs, fset, ns, res, fail) ==
  /\ pc = "run"
  /\ kind = "subclass"
  /\ fset \subseteq {f \in RelPaths : f[1] \in {"."} \cup subs}
  /\ ns <= Cardinality(subs)
  /\ steps' = Append(steps, "run")
  /\ last_run_time' = timer(last_run_time, d, fail)
  /\ IF fail
       THEN /\ Raise("run", "RuntimeError")
            /\ UNCHANGED <<work_dir, fsVars, paths, n_subtasks, n_success,
                           time_samples, run_value, last_result,
                           last_duration, at_call>>
       ELSE /\ LET wd == update_work_dir(work_dir, save_dir)
                    fs == makedirs([exists |-> exists, files |-> files], wd)
                IN /\ work_dir' = wd
                   /\ exists' = fs.exists
                   /\ files' = [fs.files EXCEPT ![wd] = @ \cup fset]
            /\ paths' = [registered |-> TRUE, subtask_dir |-> subs]
            /\ n_subtasks' = Some(Cardinality(subs))
            /\ n_success' = Some(ns)
            /\ time_samples' = time_samples + 1
            /\ run_value' = Some(res)
            /\ last_result' = Some(res)
            /\ last_duration' = Some(d)
            /\ at_call' = None
            /\ pc' = StepAfter("run", save_dir, track_stats)
            /\ UNCHANGED <<kwargs, outcome, raised_in, error,
                           call_overrides>>
  /\ UNCHANGED <<cfgVars, stats, returned, pre, n_calls, n_returned,
                 missing_sw, ctor_in, uwd>>
  /\ UNCHANGED <<embVars, invVars, verVars, optVars>>

\* Task.post_run: clean_work_dir
PostRun ==
  /\ pc = "post_run"
  /\ steps' = Append(steps, "post_run")
  /\ pre' = [exists |-> exists, files |-> files]
  /\ LET r == clean_work_dir([exists |-> exists, files |-> files],
                             save_dir, work_dir, paths, keep_files)
     IN /\ exists' = r.fs.exists
        /\ files' = r.fs.files
        /\ IF r.error # "none"
             THEN Raise("post_run", r.error)
             ELSE /\ pc' = StepAfter("post_run", save_dir, track_stats)
                  /\ UNCHANGED <<kwargs, outcome, raised_in, error,
                                 call_overrides>>
  /\ UNCHANGED <<cfgVars, work_dir, paths, runVars, stats, time_samples,
                 run_value, returned, n_calls, n_returned, missing_sw,
                 ctor_in, at_call, last_duration, uwd>>
  /\ UNCHANGED <<embVars, invVars, verVars, optVars>>

\* Task.save_data: nothing by default
SaveData ==
  /\ pc = "save_data"
  /\ steps' = Append(steps, "save_data")
  /\ pc' = StepAfter("save_data", save_dir, track_stats)
  /\ UNCHANGED <<cfgVars, work_dir, paths, runVars, stats, fsVars, kwargs,
                 time_samples, run_value, returned, outcome, raised_in,
                 error, pre, n_calls, n_returned, histVars>>
  /\ UNCHANGED <<embVars, invVars, verVars, optVars>>

\* a record that numbers itself by the calls made so far
prepare_stats_CallCount ==
  [iter |-> n_calls, time |-> last_run_time_get.value[1],
   n_success |-> NSuccess, percent_success |-> Percent(NSuccess, NSubtasks)]

\* Task.prepare_stats merged with prepare_extra_stats (which adds nothing)
prepare_stats ==
  [iter |-> iter, time |-> last_run_time_get.value[1], n_success |-> NSuccess,
   percent_success |-> Percent(NSuccess, NSubtasks)]

\* the exception Task.update_stats ends with, "none" when it appends
update_stats_error ==
  IF last_run_time_get.error # "none" THEN last_run_time_get.error
  ELSE IF NSubtasks = 0 THEN "ZeroDivisionError"
  ELSE IF stats = None THEN "AttributeError"
  ELSE "none"

\* Task.update_stats
UpdateStats ==
  /\ pc = "update_stats"
  /\ steps' = Append(steps, "update_stats")
  /\ IF update_stats_error # "none"
       THEN /\ Raise("update_stats", update_stats_error)
            /\ stats' = stats
       ELSE /\ stats' = Some(Append(stats[1], prepare_stats))
            /\ pc' = StepAfter("update_stats", save_dir, track_stats)
            /\ UNCHANGED <<kwargs, outcome, raised_in, error,
                           call_overrides>>
  /\ UNCHANGED <<cfgVars, work_dir, paths, runVars, fsVars, time_samples,
                 run_value, returned, pre, n_calls, n_returned, missing_sw,
                 ctor_in, at_call, last_duration, uwd>>
  /\ UNCHANGED <<embVars, invVars, verVars, optVars>>

\* Task.__call__, line 329: return self.last_result
Return ==
  /\ pc = "return"
  /\ returned' = last_result
  /\ outcome' = "returned"
  /\ n_returned' = n_returned + 1
  /\ kwargs' = EmptyDict
  /\ call_overrides' = EmptyDict
  /\ pc' = "idle"
  /\ UNCHANGED <<cfgVars, work_dir, paths, runVars, stats, fsVars, steps,
                 time_samples, run_value, raised_in, error, pre, n_calls,
                 missing_sw, ctor_in, at_call, last_duration, uwd>>
  /\ UNCHANGED <<embVars, invVars, verVars, optVars>>

\* ============================================================ Embedders
Smiles == {"CCO", "C", "bad"}
EmbKinds == {"ETKDG", "Random", "GeoMol"}
Schedules == {"none", "linear"}
Stds == {1, 5}
\* time_end - time_start of an invoke
Elapsed == {1}

\* whether the molecule library can parse the identifier
Parses(s) == s # "bad"

\* the molecular graph an identifier denotes
GraphOf(s) ==
  CASE s = "CCO" -> "ethanol"
    [] s = "C" -> "methane"
    [] OTHER -> "invalid"

\* RDKitMol.FromSmiles(smiles): a fresh molecule without conformers
FromSmiles(s) == [graph |-> GraphOf(s), nconfs |-> 0]

\* a plain copy, which carries the conformers over
QuickCopy_KeepConformers(m) == [graph |-> m.graph, nconfs |-> m.nconfs]

\* mol.Copy(quickCopy=True): the graph without the conformers
QuickCopy(m) == [graph |-> m.graph, nconfs |-> 0]

\* featurize_mol_from_smiles(smiles, dataset)
featurize(s) == [features_of |-> s]

\* ConfGenEmbedder.update_mol: the new smiles and mol, whether FromSmiles
\* built the molecule, and the exception raised
update_mol(s, old_smiles, old_mol) ==
  IF Some(s) # old_smiles
    THEN IF Parses(s)
           THEN [smiles |-> Some(s), mol |-> Some(FromSmiles(s)),
                 rebuilt |-> TRUE, error |-> "none"]
           ELSE [smiles |-> Some(s), mol |-> old_mol,
                 rebuilt |-> FALSE, error |-> "ValueError"]
    ELSE IF old_mol = None
           THEN [smiles |-> old_smiles, mol |-> old_mol,
                 rebuilt |-> FALSE, error |-> "AttributeError"]
           ELSE [smiles |-> old_smiles, mol |-> Some(QuickCopy(old_mol[1])),
                 rebuilt |-> FALSE, error |-> "none"]

\* a schedule that divides the counter by one hundred
Temperature_PerHundred(sched, base, it) ==
  IF sched = "linear" THEN <<base * (100 + it), 100>> ELSE <<base, 1>>

\* GeoMolEmbedder.embed_conformers, lines 107-110: the noise standard
\* deviation set on the model, kept exact as <<numerator, denominator>>
Temperature(sched, base, it) ==
  IF sched = "linear" THEN <<base * (10 + it), 10>> ELSE <<base, 1>>

\* GeoMolEmbedder.embed_conformers, lines 113-114: the cached featurization
Featurization(cache, s) == IF cache = None THEN Some(featurize(s)) ELSE cache

\* embed_conformers of the three strategies on molecule m: the molecule
\* afterwards, GeoMol's model and cache state, and the exception raised;
\* k is the number of conformers the distance-geometry routine manages
embed_conformers(knd, m, n, k, s, cache, sched, base, it, cur_std) ==
  CASE knd = "ETKDG" ->
         [mol |-> [m EXCEPT !.nconfs = k], tg_data |-> cache,
          random_vec_std |-> cur_std, fed |-> None, error |-> "none"]
    [] knd = "Random" ->
         [mol |-> [m EXCEPT !.nconfs = @ + n], tg_data |-> cache,
          random_vec_std |-> cur_std, fed |-> None, error |-> "none"]
    [] knd = "GeoMol" ->
         LET tg == Featurization(cache, s)
             t == Some(Temperature(sched, base, it))
         IN IF n = 0
              THEN [mol |-> m, tg_data |-> tg, random_vec_std |-> t,
                    fed |-> tg, error |-> "ValueError"]
              ELSE [mol |-> [m EXCEPT !.nconfs = @ + n], tg_data |-> tg,
                    random_vec_std |-> t, fed |-> tg, error |-> "none"]

\* ConfGenEmbedder.write_mol_data: the serialized snapshot
write_mol_data(m, it) ==
  [graph |-> m.graph, n_conformers |-> m.nconfs, iter |-> it]

\* a record that takes the counter as it was before the increment
emb_stats_record_StaleIter(it, t, m, n_trials) ==
  [iter |-> it - 1, time |-> t, n_success |-> m.nconfs,
   percent_success |-> Percent(m.nconfs, n_trials)]

\* ConfGenEmbedder.update_stats: the record it appends
emb_stats_record(it, t, m, n_trials) ==
  [iter |-> it, time |-> t, n_success |-> m.nconfs,
   percent_success |-> Percent(m.nconfs, n_trials)]

EmbInit ==
  /\ emb_pc = "new"
  /\ emb_kind = "Random" /\ emb_iter = 0 /\ emb_track_stats = FALSE
  /\ emb_n_success = None /\ emb_percent_success = None
  /\ emb_stats = <<>> /\ smiles = None /\ mol = None
  /\ tg_data = None /\ std = None /\ temp_schedule = "none"
  /\ random_vec_std = None
  /\ mol_data = None /\ emb_outcome = "none" /\ emb_error = "none"
  /\ rebuilt = FALSE /\ fed = None /\ call_id = None /\ call_n = 0
  /\ prev_id = None /\ n_invokes = 0 /\ n_completed = 0 /\ n_failed = 0

\* ConfGenEmbedder.__init__ and GeoMolEmbedder.__init__
EmbConstruct(knd, ts, sched, base) ==
  /\ emb_pc = "new"
  /\ emb_pc' = "ready"
  /\ emb_kind' = knd
  /\ emb_track_stats' = ts
  /\ emb_iter' = 0
  /\ emb_n_success' = None
  /\ emb_percent_success' = None
  /\ emb_stats' = <<>>
  /\ smiles' = None
  /\ IF knd = "GeoMol"
       THEN /\ std' = Some(base)
            /\ temp_schedule' = sched
       ELSE /\ std' = None
            /\ temp_schedule' = temp_schedule
  /\ tg_data' = None
  /\ UNCHANGED <<mol, random_vec_std>>
  /\ UNCHANGED <<taskVars, fsVars, callVars, histVars, invVars, verVars,
                 optVars>>

\* ConfGenEmbedder.__call__(smiles, n_conformers)
Invoke(s, n, k, t) ==
  /\ emb_pc = "ready"
  /\ n_invokes < (IF emb_track_stats THEN MaxRecords ELSE MaxInvokes)
  /\ k <= n
  /\ n_invokes' = n_invokes + 1
  /\ call_id' = Some(s)
  /\ call_n' = n
  /\ prev_id' = call_id
  /\ emb_iter' = emb_iter + 1
  /\ LET um == update_mol(s, smiles, mol)
         ec == embed_conformers(emb_kind, um.mol[1], n, k, um.smiles[1],
                                tg_data, temp_schedule,
                                IF std = None THEN 0 ELSE std[1],
                                emb_iter + 1, random_vec_std)
     IN /\ smiles' = um.smiles
        /\ rebuilt' = um.rebuilt
        /\ IF um.error # "none"
             THEN /\ mol' = um.mol
                  /\ emb_outcome' = "raised"
                  /\ emb_error' = um.error
                  /\ fed' = None
                  /\ UNCHANGED <<tg_data, random_vec_std, mol_data,
                                 emb_n_success, emb_percent_success,
                                 emb_stats>>
           ELSE IF ec.error # "none"
             THEN /\ mol' = Some(ec.mol)
                  /\ tg_data' = ec.tg_data
                  /\ random_vec_std' = ec.random_vec_std
                  /\ fed' = ec.fed
                  /\ emb_outcome' = "raised"
                  /\ emb_error' = ec.error
                  /\ UNCHANGED <<mol_data, emb_n_success,
                                 emb_percent_success, emb_stats>>
           ELSE /\ mol' = Some(ec.mol)
                /\ tg_data' = ec.tg_data
                /\ random_vec_std' = ec.random_vec_std
                /\ fed' = ec.fed
                /\ IF ~emb_track_stats
                     THEN /\ mol_data' = Some(write_mol_data(ec.mol,
                                                             emb_iter + 1))
                          /\ emb_outcome' = "returned"
                          /\ emb_error' = "none"
                          /\ UNCHANGED <<emb_n_success,
                                         emb_percent_success, emb_stats>>
                   ELSE IF n = 0
                     THEN /\ emb_n_success' = Some(ec.mol.nconfs)
                          /\ emb_outcome' = "raised"
                          /\ emb_error' = "ZeroDivisionError"
                          /\ UNCHANGED <<mol_data, emb_percent_success,
                                         emb_stats>>
                   ELSE LET rec == emb_stats_record(emb_iter + 1, t,
                                                    ec.mol, n)
                        IN /\ emb_n_success' = Some(rec.n_success)
                           /\ emb_percent_success' =
                                Some(rec.percent_success)
                           /\ emb_stats' = Append(emb_stats, rec)
                           /\ mol_data' = Some(write_mol_data(ec.mol,
                                                              emb_iter + 1))
                           /\ emb_outcome' = "returned"
                           /\ emb_error' = "none"
  /\ n_completed' = IF emb_outcome' = "returned"
                      THEN n_completed + 1 ELSE n_completed
  /\ n_failed' = IF emb_outcome' = "raised" THEN n_failed + 1 ELSE n_failed
  /\ UNCHANGED <<emb_pc, emb_kind, emb_track_stats, std, temp_schedule>>
  /\ UNCHANGED <<taskVars, fsVars, callVars, histVars, verVars, optVars>>


\* ==================================================== frequency verifier
\* conformer indices of the molecule the verifier is handed
Subtasks == {0, 1}
\* a frequency list, by its number of valid imaginary modes
FreqLists == {0, 1, 2}
\* what the log parser reports: success flag and frequency list
Logs == {[success |-> FALSE, freqs |-> 0]}
          \cup {[success |-> TRUE, freqs |-> f] : f \in FreqLists}

\* need_calc_freqs: the frequencies of the conformer are not computed yet
need_calc_freqs(fr, i) == fr[i] = None

\* check_negative_freqs: a minimum has no imaginary mode, a transition
\* state exactly one
check_negative_freqs(freqs, ts) == IF ts THEN freqs = 1 ELSE freqs = 0

\* an analysis that goes on to the frequency check after a failed parse
analyze_subtask_result_NoReturn(fr, kp, i, log, ts) ==
  IF need_calc_freqs(fr, i)
    THEN IF log.success
           THEN [frequencies |-> [fr EXCEPT ![i] = Some(log.freqs)],
                 keep_ids |->
                   [kp EXCEPT ![i] = check_negative_freqs(log.freqs, ts)],
                 parsed |-> TRUE, checked |-> TRUE, error |-> "none"]
           ELSE [frequencies |-> fr, keep_ids |-> [kp EXCEPT ![i] = FALSE],
                 parsed |-> TRUE, checked |-> TRUE, error |-> "TypeError"]
    ELSE [frequencies |-> fr,
          keep_ids |->
            [kp EXCEPT ![i] = check_negative_freqs(fr[i][1], ts)],
          parsed |-> FALSE, checked |-> TRUE, error |-> "none"]

\* GaussianFreqVerifier.analyze_subtask_result on the annotations fr and kp:
\* the annotations afterwards, whether the log was parsed, whether the
\* frequency check was applied, and the exception raised
analyze_subtask_result(fr, kp, i, log, ts) ==
  IF need_calc_freqs(fr, i)
    THEN IF log.success
           THEN [frequencies |-> [fr EXCEPT ![i] = Some(log.freqs)],
                 keep_ids |->
                   [kp EXCEPT ![i] = check_negative_freqs(log.freqs, ts)],
                 parsed |-> TRUE, checked |-> TRUE, error |-> "none"]
           ELSE [frequencies |-> fr, keep_ids |-> [kp EXCEPT ![i] = FALSE],
                 parsed |-> TRUE, checked |-> FALSE, error |-> "none"]
    ELSE [frequencies |-> fr,
          keep_ids |->
            [kp EXCEPT ![i] = check_negative_freqs(fr[i][1], ts)],
          parsed |-> FALSE, checked |-> TRUE, error |-> "none"]

VerInit ==
  /\ ver_pc = "new"
  /\ frequencies = [i \in Subtasks |-> None]
  /\ keep_ids = [i \in Subtasks |-> TRUE]
  /\ ver_error = "none" /\ ver_last = None /\ n_analyses = 0

\* the verifier is handed a molecule whose conformers carry these
\* annotations
VerStart(fr, kp) ==
  /\ ver_pc = "new"
  /\ ver_pc' = "ready"
  /\ frequencies' = fr
  /\ keep_ids' = kp
  /\ UNCHANGED <<ver_error, ver_last, n_analyses>>
  /\ UNCHANGED <<taskVars, fsVars, callVars, histVars, embVars, invVars,
                 optVars>>

\* one call of analyze_subtask_result(mol, subtask_id, ts=ts)
Analyze(i, log, ts) ==
  /\ ver_pc = "ready"
  /\ n_analyses < MaxAnalyses
  /\ n_analyses' = n_analyses + 1
  /\ LET r == analyze_subtask_result(frequencies, keep_ids, i, log, ts)
     IN /\ frequencies' = r.frequencies
        /\ keep_ids' = r.keep_ids
        /\ ver_error' = r.error
        /\ ver_last' = Some([subtask_id |-> i, log |-> log, ts |-> ts,
                             frequencies |-> frequencies,
                             keep_ids |-> keep_ids,
                             parsed |-> r.parsed, checked |-> r.checked])
  /\ UNCHANGED ver_pc
  /\ UNCHANGED <<taskVars, fsVars, callVars, histVars, embVars, invVars,
                 optVars>>

\* ================================================= force-field optimizer
\* conformer geometries before optimization
Geoms == {"g1"}
\* status codes of the force field (0: converged) and energies
Statuses == {0, 1, 0 - 1}
Energies == {0, 1}
Backends == {"rdkit", "openbabel"}

\* the molecules a run can be handed: up to MaxConf conformers, not
\* annotated yet
InputMols ==
  {[obj |-> "mol", confs |-> c, energies |-> <<>>, keep_ids |-> <<>>] :
     c \in UNION {[1..n -> Geoms] : n \in 0..MaxConf}}

\* what optimize_confs can return for n conformers: one (status, energy)
\* pair per conformer
ResultLists(n) == [1..n -> Statuses \X Energies]

\* mol.Copy(): another object with the same content
Copy(m) == [m EXCEPT !.obj = "copy"]

\* the geometry the force field leaves a conformer in
Optimized(g) == IF g = "g1" THEN "g1_opt" ELSE "other_opt"

\* the force field after setup(m) and optimize_confs(): its molecule with
\* every conformer optimized
optimize_confs(m) ==
  [m EXCEPT !.confs = [i \in DOMAIN m.confs |-> Optimized(m.confs[i])]]

\* lines 53-54: zip(*results) unpacked into keep_ids and energies
Annotated(m, results) ==
  [m EXCEPT !.energies = [i \in DOMAIN results |-> results[i][2]],
            !.keep_ids = [i \in DOMAIN results |-> results[i][1] = 0]]

\* a run that optimizes the molecule it was handed, without copying it
MMFFOptimizer_run_NoCopy(m, results) ==
  IF Len(results) = 0
    THEN [mol |-> optimize_confs(m), returned |-> None,
          error |-> "ValueError"]
    ELSE [mol |-> Annotated(optimize_confs(m), results),
          returned |-> Some(Annotated(optimize_confs(m), results)),
          error |-> "none"]

\* MMFFOptimizer.run: the caller's molecule afterwards, the molecule
\* returned and the exception raised; unpacking zip(*results) raises
\* ValueError when there is no result
MMFFOptimizer_run(m, results) ==
  IF Len(results) = 0
    THEN [mol |-> m, returned |-> None, error |-> "ValueError"]
    ELSE [mol |-> m,
          returned |-> Some(Annotated(optimize_confs(Copy(m)), results)),
          error |-> "none"]

OptInit ==
  /\ opt_pc = "new" /\ ff = None
  /\ opt_in = None /\ opt_given = None /\ opt_results = <<>>
  /\ opt_out = None /\ opt_error = "none" /\ n_runs = 0

\* MMFFOptimizer.task_prep
OptPrep(software, variant) ==
  /\ opt_pc = "new"
  /\ IF software = "rdkit"
       THEN /\ ff' = Some(variant)
            /\ opt_pc' = "ready"
            /\ opt_error' = opt_error
       ELSE /\ ff' = ff
            /\ opt_pc' = "failed"
            /\ opt_error' = "NotImplementedError"
  /\ UNCHANGED <<opt_in, opt_given, opt_results, opt_out, n_runs>>
  /\ UNCHANGED <<taskVars, fsVars, callVars, histVars, embVars, invVars,
                 verVars>>

\* MMFFOptimizer.run(mol)
OptRun(m, results) ==
  /\ opt_pc = "ready"
  /\ n_runs < MaxRuns
  /\ Len(results) = Len(m.confs)
  /\ n_runs' = n_runs + 1
  /\ opt_given' = Some(m)
  /\ opt_results' = results
  /\ LET r == MMFFOptimizer_run(m, results)
     IN /\ opt_in' = Some(r.mol)
        /\ opt_out' = r.returned
        /\ opt_error' = r.error
  /\ UNCHANGED <<opt_pc, ff>>
  /\ UNCHANGED <<taskVars, fsVars, callVars, histVars, embVars, invVars,
                 verVars>>

\* ======================================================= specifications
Init == TaskInit /\ EmbInit /\ VerInit /\ OptInit

Next ==
  \/ /\ pc = "new"
     /\ \E ts \in BOOLEAN, dirs \in DirArgs, it \in IterVals, kw \in StoredArgs,
           cls \in Classes, req \in SUBSET Software,
           avail \in [Software -> BOOLEAN], disk \in SUBSET UserDirs :
          Construct(ts, dirs[1], dirs[2], it, kw, cls[1], cls[2], req,
                    avail, disk)
  \/ /\ pc = "idle"
     /\ \E overrides \in Dicts : Call(overrides)
  \/ /\ pc = "idle"
     /\ UpdateWorkDir
  \/ /\ pc = "pre_run"
     /\ \E fail \in BOOLEAN : PreRun(fail)
  \/ /\ pc = "run" /\ kind = "base"
     /\ \E d \in Durations : Run(d)
  \/ /\ pc = "run" /\ kind = "subclass"
     /\ \/ \E d \in Durations, subs \in SubtaskSets,
              fset \in SUBSET RelPaths, ns \in 0..Cardinality(SubDirs),
              res \in Results :
             SubclassRun(d, subs, fset, ns, res, FALSE)
        \/ \E d \in Durations, res \in Results :
             SubclassRun(d, {}, {}, 0, res, TRUE)
  \/ PostRun
  \/ SaveData
  \/ UpdateStats
  \/ Return

Spec == Init /\ [][Next]_vars

EmbNext ==
  \/ /\ emb_pc = "new"
     /\ \E knd \in EmbKinds, ts \in BOOLEAN, sched \in Schedules,
        base \in Stds : EmbConstruct(knd, ts, sched, base)
  \/ /\ emb_pc = "ready"
     /\ \E s \in Smiles, n \in 0..MaxConf, t \in Elapsed :
          \E k \in IF emb_kind = "ETKDG" THEN 0..n ELSE {n} :
             Invoke(s, n, k, t)

EmbSpec == Init /\ [][EmbNext]_vars

VerNext ==
  \/ /\ ver_pc = "new"
     /\ \E fr \in [Subtasks -> {None} \cup {Some(f) : f \in FreqLists}],
           kp \in [Subtasks -> BOOLEAN] : VerStart(fr, kp)
  \/ /\ ver_pc = "ready"
     /\ \E i \in Subtasks, log \in Logs, ts \in BOOLEAN : Analyze(i, log, ts)

VerSpec == Init /\ [][VerNext]_vars

OptNext ==
  \/ /\ opt_pc = "new"
     /\ \E software \in Backends, variant \in {"MMFF94", "MMFF94s"} :
          OptPrep(software, variant)
  \/ /\ opt_pc = "ready"
     /\ \E m \in InputMols : \E results \in ResultLists(Len(m.confs)) :
          OptRun(m, results)

OptSpec == Init /\ [][OptNext]_vars

\* ================================================================ claims
Range(q) == {q[i] : i \in 1..Len(q)}
IsPrefix(a, b) == Len(a) <= Len(b) /\ SubSeq(b, 1, Len(a)) = a
Constructed == pc \notin {"new", "failed"}
\* the last call ran its cleanup and the cleanup did not raise
CleanupReturned ==
  Constructed /\ "post_run" \in Range(steps) /\ raised_in # "post_run"

\* ------------------------------------------------------------------ C1
ExpectedSteps ==
  <<"merge", "pre_run", "run", "post_run">>
    \o (IF save_dir # NoDir THEN <<"save_data">> ELSE <<>>)
    \o (IF track_stats THEN <<"update_stats">> ELSE <<>>)

\* C1: in every call the steps performed so far are a prefix of merge,
\* pre_run, run, post_run, save_data (iff save_dir is set), update_stats
\* (iff track_stats); a run that completed recorded exactly one duration;
\* a call that returns has performed the whole sequence and returns run's
\* value, which is last_result.
C1_CallOrder ==
  Constructed =>
    /\ IsPrefix(steps, ExpectedSteps)
    /\ time_samples =
         (IF "run" \in Range(steps) /\ raised_in # "run" THEN 1 ELSE 0)
    /\ (outcome = "returned" =>
          /\ steps = ExpectedSteps
          /\ returned # None
          /\ returned = run_value
          /\ returned = last_result)

C1_Witness ==
  /\ outcome = "returned" /\ n_returned >= 2
  /\ save_dir # NoDir /\ steps = ExpectedSteps /\ time_samples = 1

\* ------------------------------------------------------------------ C2
\* C2: with track_stats, once a call has reached its statistics step (and
\* the number of subtasks is not zero) the call returns and the history
\* holds one record per completed call.
C2_StatsHistory ==
  (Constructed /\ track_stats /\ pc = "idle"
     /\ "update_stats" \in Range(steps) /\ NSubtasks # 0) =>
    /\ outcome = "returned"
    /\ stats # None
    /\ Len(stats[1]) = n_returned

\* ------------------------------------------------------------------ C3
\* C3: without save_dir, once the cleanup of a call has run the working
\* directory is not on disk, in the first call and in every later one.
C3_EphemeralWorkDirGone ==
  (Constructed /\ save_dir = NoDir /\ "post_run" \in Range(steps)) =>
    work_dir \notin exists

C3_Witness ==
  /\ save_dir = NoDir /\ outcome = "returned" /\ n_returned >= 2
  /\ work_dir \in pre.exists /\ work_dir \notin exists

\* ------------------------------------------------------------------ C4
\* C4 as stated: with save_dir and keep_files = ['*'], after cleanup every
\* file that was in work_dir is in save_dir and work_dir is gone when it is
\* another location, whether or not anything was registered in paths.
C4_KeepAllMovesAll ==
  (CleanupReturned /\ save_dir # NoDir /\ "*" \in keep_files
     /\ work_dir # NoDir) =>
    /\ pre.files[work_dir] \subseteq files[save_dir]
    /\ (work_dir # save_dir => work_dir \notin exists)

\* C4 amended: the same when something was registered in paths; when
\* nothing was registered, cleanup leaves both directories as they were.
C4_KeepAllMovesRegistered ==
  (CleanupReturned /\ save_dir # NoDir /\ "*" \in keep_files) =>
    IF paths.registered
      THEN /\ pre.files[work_dir] \subseteq files[save_dir]
           /\ (work_dir # save_dir => work_dir \notin exists)
      ELSE exists = pre.exists /\ files = pre.files

C4_Witness ==
  /\ CleanupReturned /\ save_dir # NoDir /\ "*" \in keep_files
  /\ paths.registered /\ work_dir # save_dir
  /\ pre.files[work_dir] # {} /\ pre.files[work_dir] \subseteq files[save_dir]

\* ------------------------------------------------------------------ C5
\* C5: with save_dir and a keep-list without '*', after cleanup no file
\* with a name outside the list is in a registered subtask directory of
\* save_dir, every listed file of a registered subtask directory of
\* work_dir is in save_dir, and the files of work_dir outside the
\* registered subtask directories are still there (now in save_dir).
C5_KeepListFilter ==
  (CleanupReturned /\ save_dir # NoDir /\ "*" \notin keep_files
     /\ paths.registered) =>
    /\ \A f \in files[save_dir] :
         f[1] \in paths.subtask_dir => f[2] \in keep_files
    /\ \A f \in pre.files[work_dir] :
         (f[1] \in paths.subtask_dir /\ f[2] \in keep_files)
           => f \in files[save_dir]
    /\ \A f \in pre.files[work_dir] :
         f[1] \notin paths.subtask_dir => f \in files[save_dir]

C5_Witness ==
  /\ CleanupReturned /\ save_dir # NoDir /\ "*" \notin keep_files
  /\ paths.registered /\ work_dir # save_dir
  /\ pre.files[work_dir] = RelPaths
  /\ <<"subtask0", "b.chk">> \notin files[save_dir]
  /\ <<"subtask0", "a.log">> \in files[save_dir]

\* ------------------------------------------------------------------ C6
\* C6: on a Task without save_dir, the cleanup of a second or later call
\* does not raise.
C6_RepeatedCleanupDoesNotRaise ==
  ~(Constructed /\ save_dir = NoDir /\ n_calls >= 2
      /\ raised_in = "post_run")

\* ------------------------------------------------------------------ C7
\* C7: for the strategies that add exactly the requested number (Random,
\* GeoMol), the snapshot of a returned invoke(id, n), n > 0, has exactly n
\* conformers, also when id repeats the previous call's identifier.
C7_ExactCount ==
  (emb_outcome = "returned" /\ emb_kind \in {"Random", "GeoMol"}
     /\ call_n > 0) =>
    mol_data[1].n_conformers = call_n

C7_Witness ==
  /\ emb_outcome = "returned" /\ emb_kind = "Random" /\ call_n > 0
  /\ n_completed >= 2 /\ prev_id = call_id /\ ~rebuilt
  /\ mol_data[1].n_conformers = call_n

\* ------------------------------------------------------------------ C8
\* C8: a returned invoke(id, n) rebuilt the molecule exactly when id
\* differs from the previous call's identifier, and leaves a molecule
\* whose graph is the graph of id with the stored smiles equal to id.
C8_RebuildIffIdChanges ==
  emb_outcome = "returned" =>
    /\ (rebuilt <=> prev_id # call_id)
    /\ mol[1].graph = GraphOf(call_id[1])
    /\ smiles = call_id

\* ------------------------------------------------------------------ C9
\* C9: in the GeoMol embedder, the featurization fed to the inference of
\* a returned invoke(id, n) is the one computed from id.
C9_FeaturesOfCurrentId ==
  (emb_outcome = "returned" /\ emb_kind = "GeoMol") =>
    fed = Some(featurize(call_id[1]))

\* ----------------------------------------------------------------- C10
\* what C10 says of the counter and of the record of the invoke that just
\* returned, apart from the iter values of the history
C10_Common ==
  /\ emb_iter = n_invokes
  /\ IF emb_track_stats
       THEN /\ Len(emb_stats) = n_completed
            /\ (emb_outcome = "returned" =>
                  LET r == emb_stats[Len(emb_stats)]
                  IN /\ r.iter = emb_iter
                     /\ r.n_success = mol[1].nconfs
                     /\ emb_n_success = Some(r.n_success)
                     /\ emb_percent_success = Some(r.percent_success)
                     /\ r.percent_success[1] * call_n
                          = r.n_success * 100 * r.percent_success[2])
       ELSE /\ emb_stats = <<>>
            /\ emb_n_success = None
            /\ emb_percent_success = None

\* C10 as stated: every invoke increments iter by one; with track_stats
\* each completed invoke appends one record of the molecule's conformer
\* count, without it nothing is recorded; after k completed invokes the
\* history has k records with iter values 1..k.
C10_IterValuesOneToK ==
  emb_pc = "ready" =>
    /\ C10_Common
    /\ \A i \in 1..Len(emb_stats) : emb_stats[i].iter = i

\* C10 amended: the same, but the iter values of the history are strictly
\* increasing counts of the invokes started so far; they are 1..k when no
\* invoke has raised.
C10_IterValuesIncreasing ==
  emb_pc = "ready" =>
    /\ C10_Common
    /\ \A i \in 1..Len(emb_stats) :
         /\ emb_stats[i].iter >= i
         /\ emb_stats[i].iter <= emb_iter
         /\ (i > 1 => emb_stats[i - 1].iter < emb_stats[i].iter)
    /\ (n_failed = 0 => \A i \in 1..Len(emb_stats) : emb_stats[i].iter = i)

C10_Witness ==
  /\ emb_track_stats /\ emb_outcome = "returned" /\ n_completed >= 2
  /\ n_failed >= 1 /\ emb_stats[1].iter = 2

\* C11: reading last_run_time on a Task whose run never completed raises
\* the "not yet run" error instead of yielding zero or null; after a
\* completed run it yields the duration of the most recent completed run,
\* and a call writes it exactly once, when its run completes.
C11_LastRunTime ==
  Constructed =>
    /\ (last_duration = None =>
          /\ last_run_time_get.error = "RuntimeError"
          /\ last_run_time_get.value = None)
    /\ (last_duration # None =>
          /\ last_run_time_get.error = "none"
          /\ last_run_time_get.value = last_duration)
    /\ (n_calls >= 1 =>
          time_samples = IF "run" \in Range(steps) /\ raised_in # "run"
                           THEN 1 ELSE 0)

C11_Witness ==
  /\ Constructed /\ outcome = "returned" /\ n_returned >= 2
  /\ time_samples = 1 /\ last_run_time_get.value = Some(2)

\* C12: when the class declares required external software and the
\* registry reports one of them unavailable, construction raises before
\* task_prep runs and the instance is never called; when all of them are
\* available, or none is declared, construction goes on to task_prep.
C12_SoftwareGate ==
  pc # "new" =>
    /\ (missing_sw # {} =>
          /\ pc = "failed" /\ error = "RuntimeError"
          /\ extra_args = None /\ n_calls = 0)
    /\ (missing_sw = {} => pc # "failed" /\ extra_args # None)

C12_Witness ==
  /\ pc = "failed" /\ missing_sw = {"xtb"} /\ extra_args = None

\* C13: while pre_run, run and post_run of a call execute, the keyword
\* mapping they are handed is the stored configuration overlaid with the
\* overrides of this call, the overrides winning; the stored configuration
\* is what the constructor stored, whatever the calls were given.
C13_SameMergedArgs ==
  /\ pc \in {"pre_run", "run", "post_run"} =>
       /\ DOMAIN kwargs = (DOMAIN ExtraArgs) \cup (DOMAIN call_overrides)
       /\ \A k \in DOMAIN kwargs :
            kwargs[k] = IF k \in DOMAIN call_overrides
                          THEN call_overrides[k] ELSE ExtraArgs[k]
  /\ Constructed => extra_args = Some(ctor_in[1].kwargs)

C13_Witness ==
  /\ pc = "post_run" /\ n_calls >= 2
  /\ "test" \in DOMAIN ExtraArgs /\ "test" \in DOMAIN call_overrides
  /\ ExtraArgs["test"] # call_overrides["test"]
  /\ kwargs["test"] = call_overrides["test"]

\* C14: update_work_dir returns the work_dir it leaves on the task, which
\* is never None: the work_dir already set, unchanged; else save_dir when
\* there is one; else a newly allocated temporary directory.  It allocates
\* nothing in the first two cases, and invoking it again returns the same
\* value and allocates nothing.
C14_UpdateWorkDir ==
  uwd # None =>
    /\ work_dir # NoDir
    /\ uwd[1].returned = work_dir
    /\ (uwd[1].before # NoDir =>
          uwd[1].returned = uwd[1].before /\ uwd[1].created = {})
    /\ (uwd[1].before = NoDir /\ save_dir # NoDir =>
          uwd[1].returned = save_dir /\ uwd[1].created = {})
    /\ (uwd[1].before = NoDir /\ save_dir = NoDir =>
          uwd[1].returned = "tmp" /\ uwd[1].created = {"tmp"})
    /\ update_work_dir(work_dir, save_dir) = work_dir
    /\ update_work_dir_mkdtemp(work_dir, save_dir) = {}

C14_Witness ==
  /\ uwd # None /\ uwd[1].before = NoDir /\ uwd[1].returned = "s"
  /\ work_dir = "s" /\ n_calls = 0

\* C15 as stated: a Task that never touches disk (the base class, which
\* neither invokes update_work_dir nor registers paths) creates no
\* directory, neither in its constructor nor in any step of a call,
\* whatever save_dir and work_dir it was given, both omitted included.
C15_NoDirectoryCreated ==
  /\ [](pc # "new" /\ kind = "base" => ctor_in[1].created = {})
  /\ [][pc # "new" /\ kind = "base" => exists' \subseteq exists]_vars

\* C15 amended: such a Task creates no directory when save_dir or work_dir
\* was given; when both were omitted its constructor allocates one
\* temporary directory; no step of a call creates a directory.
C15_OnlyConstructorTempDir ==
  /\ [](pc # "new" /\ kind = "base" =>
          ctor_in[1].created =
            IF ctor_in[1].save_dir = NoDir /\ ctor_in[1].work_dir = NoDir
              THEN {"tmp"} ELSE {})
  /\ [][pc # "new" /\ kind = "base" => exists' \subseteq exists]_vars

C15_Witness ==
  /\ Constructed /\ kind = "base" /\ outcome = "returned"
  /\ ctor_in[1].save_dir = NoDir /\ ctor_in[1].work_dir = NoDir
  /\ ctor_in[1].created = {"tmp"}

\* C19: when pre_run or run raises, the call stops there: post_run (and
\* with it clean_work_dir), save_data and update_stats are not executed,
\* the directories and files are as they were when the call started,
\* nothing is appended to the statistics, nothing is returned, and
\* last_result and last_run_time keep the values they had before the call
\* (unset if no earlier call completed its run).
C19_RaiseHalts ==
  (outcome = "raised" /\ raised_in \in {"pre_run", "run"}) =>
    /\ at_call # None
    /\ Range(steps) \cap {"post_run", "save_data", "update_stats"} = {}
    /\ exists = at_call[1].exists
    /\ files = at_call[1].files
    /\ stats = at_call[1].stats
    /\ last_result = at_call[1].last_result
    /\ last_run_time = at_call[1].last_run_time
    /\ returned = None /\ run_value = None /\ time_samples = 0

C19_Witness ==
  /\ outcome = "raised" /\ raised_in = "run" /\ n_returned >= 1
  /\ last_result # None /\ last_run_time = Some(2)
  /\ work_dir \in exists /\ files[work_dir] # {}

\* C18: for a GeoMol embedding, the noise standard deviation set on the
\* model is std * (1 + iter / 10) under the linear schedule, iter being the
\* embedder's counter when embed_conformers runs (already incremented by
\* the invoke): std for iter = 0 and twice std for iter = 10; under the
\* schedule "none" it is std on every call.
C18_TemperatureSchedule ==
  /\ \A b \in Stds :
       Temperature("linear", b, 0)[1] = b * Temperature("linear", b, 0)[2]
  /\ (emb_kind = "GeoMol" /\ fed # None) =>
       /\ random_vec_std # None
       /\ (temp_schedule = "linear" =>
             random_vec_std[1][1] * 10 =
               std[1] * (10 + emb_iter) * random_vec_std[1][2])
       /\ (temp_schedule = "linear" /\ emb_iter = 10 =>
             random_vec_std[1][1] = 2 * std[1] * random_vec_std[1][2])
       /\ (temp_schedule = "none" =>
             random_vec_std[1][1] = std[1] * random_vec_std[1][2])

C18_Witness ==
  /\ emb_kind = "GeoMol" /\ temp_schedule = "linear" /\ fed # None
  /\ emb_iter = 10 /\ std = Some(5) /\ random_vec_std = Some(<<100, 10>>)

\* C20: whenever the embedder holds a working molecule, its graph is the
\* graph of the stored smiles, also after an invoke that raised.
C20_MolIsGraphOfSmiles ==
  mol # None => (smiles # None /\ mol[1].graph = GraphOf(smiles[1]))

\* C16: after analyze_subtask_result on subtask i without an exception:
\* when the frequencies of i were missing and the parse failed, keep_ids[i]
\* is False, nothing is stored and the frequency check was not applied;
\* when the parse succeeded, the parsed frequencies are stored and
\* keep_ids[i] is the result of the check on them; when the frequencies
\* were there already, no log was parsed and keep_ids[i] is the result of
\* the check on the stored frequencies; the annotations of every other
\* index are as before.
C16_AnalyzeSubtask ==
  ver_last # None =>
    LET h == ver_last[1]
        i == ver_last[1].subtask_id
    IN /\ ver_error = "none"
       /\ (h.frequencies[i] = None /\ ~h.log.success =>
             /\ h.parsed /\ ~h.checked
             /\ keep_ids[i] = FALSE
             /\ frequencies[i] = None)
       /\ (h.frequencies[i] = None /\ h.log.success =>
             /\ h.parsed /\ h.checked
             /\ frequencies[i] = Some(h.log.freqs)
             /\ keep_ids[i] = check_negative_freqs(h.log.freqs, h.ts))
       /\ (h.frequencies[i] # None =>
             /\ ~h.parsed /\ h.checked
             /\ frequencies[i] = h.frequencies[i]
             /\ keep_ids[i] = check_negative_freqs(h.frequencies[i][1], h.ts))
       /\ \A j \in Subtasks \ {i} :
            frequencies[j] = h.frequencies[j] /\ keep_ids[j] = h.keep_ids[j]

C16_Witness ==
  /\ ver_last # None /\ ~ver_last[1].log.success
  /\ ver_last[1].frequencies[ver_last[1].subtask_id] = None
  /\ ver_last[1].keep_ids[ver_last[1].subtask_id]
  /\ ~keep_ids[ver_last[1].subtask_id]
  /\ n_analyses = 2

\* C17: a run of MMFFOptimizer leaves the molecule it was handed as it
\* was; the molecule it returns is another object with as many conformers,
\* one energy and one keep flag per conformer in conformer order, the keep
\* flag of conformer i being true exactly when the status code of i is
\* zero; a status code other than zero never makes the run raise (it
\* raises only when the molecule has no conformer at all).
C17_OptimizerRun ==
  n_runs >= 1 =>
    /\ opt_in = opt_given
    /\ (opt_error # "none" <=> Len(opt_given[1].confs) = 0)
    /\ (opt_error = "none" <=> opt_out # None)
    /\ opt_out # None =>
         /\ opt_out[1].obj # opt_in[1].obj
         /\ Len(opt_out[1].confs) = Len(opt_given[1].confs)
         /\ Len(opt_out[1].energies) = Len(opt_given[1].confs)
         /\ Len(opt_out[1].keep_ids) = Len(opt_given[1].confs)
         /\ \A i \in 1..Len(opt_given[1].confs) :
              /\ opt_out[1].confs[i] = Optimized(opt_given[1].confs[i])
              /\ opt_out[1].energies[i] = opt_results[i][2]
              /\ opt_out[1].keep_ids[i] = (opt_results[i][1] = 0)

C17_Witness ==
  /\ n_runs >= 1 /\ opt_out # None /\ Len(opt_given[1].confs) = 2
  /\ opt_results[1][1] = 1 /\ opt_results[2][1] = 0
  /\ opt_out[1].keep_ids = <<FALSE, TRUE>>
  /\ opt_out[1].energies = <<1, 0>>

====
